---- MODULE Spec2Model ----
(***************************************************************************)
(* Model of server/controllers/aiController.js: the two AI request         *)
(* handlers (generate-questions, generate-explanation), the helpers        *)
(* getGeminiText and tryParseJSON, and the Question collection they read   *)
(* and write through findById / findByIdAndUpdate.                         *)
(*                                                                         *)
(* A JavaScript string is a sequence of lexemes (Text).  null/undefined of *)
(* an optional value is the empty sequence <<>>, a present value x is      *)
(* <<x>>.  A JSON value is a record of one uniform shape (see JNull ...).  *)
(***************************************************************************)
EXTENDS Integers, Sequences, FiniteSets, TLC

\* Number of handler invocations in flight in the concurrent specification.
NumReqs == 2

(***************************************************************************)
(* JavaScript / JSON values                                                *)
(***************************************************************************)
None == <<>>
Some(x) == <<x>>

JNull == [t |-> "null", b |-> FALSE, n |-> 0, s |-> <<>>, keys |-> <<>>, kids |-> <<>>]
JBool(b) == [t |-> "bool", b |-> b, n |-> 0, s |-> <<>>, keys |-> <<>>, kids |-> <<>>]
JNum(n) == [t |-> "num", b |-> FALSE, n |-> n, s |-> <<>>, keys |-> <<>>, kids |-> <<>>]
JStr(s) == [t |-> "str", b |-> FALSE, n |-> 0, s |-> s, keys |-> <<>>, kids |-> <<>>]
JArr(kids) == [t |-> "arr", b |-> FALSE, n |-> 0, s |-> <<>>, keys |-> <<>>, kids |-> kids]
JObj(keys, kids) == [t |-> "obj", b |-> FALSE, n |-> 0, s |-> <<>>, keys |-> keys, kids |-> kids]

\* JavaScript truthiness of a value: null, false, 0 and "" are falsy; every
\* array and object (also the empty ones) is truthy.
Truthy(v) ==
    CASE v.t = "null" -> FALSE
      [] v.t = "bool" -> v.b
      [] v.t = "num" -> v.n # 0
      [] v.t = "str" -> v.s # <<>>
      [] OTHER -> TRUE

\* !x of an optional request field: undefined, or a falsy value.
Falsy(opt) == opt = None \/ ~Truthy(opt[1])

(***************************************************************************)
(* Lexemes of provider text                                                *)
(***************************************************************************)
\* The markdown code-fence marker (three backquotes) and the language tag.
Fence == "<fence>"
LangJson == "json"
WS == {" ", "\n"}

\* Number literals and their values.
NumLit == ("0" :> 0) @@ ("1" :> 1) @@ ("7" :> 7)
\* String literals (with their quotes) and their contents.
StrLit ==
    ("\"\"" :> <<>>) @@ ("\"a\"" :> <<"a">>) @@ ("\"B\"" :> <<"B">>)
    @@ ("\"explanation\"" :> <<"explanation">>)
    @@ ("\"title\"" :> <<"title">>)

Quote(s) == CHOOSE k \in DOMAIN StrLit : StrLit[k] = s
NumText(n) == CHOOSE k \in DOMAIN NumLit : NumLit[k] = n

IsPrefix(p, s) == Len(p) <= Len(s) /\ SubSeq(s, 1, Len(p)) = p

(***************************************************************************)
(* JSON.parse                                                              *)
(***************************************************************************)
POk(v, next) == [ok |-> TRUE, val |-> v, next |-> next, err |-> <<>>]
PFail(msg) == [ok |-> FALSE, val |-> JNull, next |-> 0, err |-> msg]
UnexpectedEnd == <<"Unexpected end of JSON input">>
Digit == <<"0", "1", "2", "3", "4", "5", "6", "7", "8", "9">>
RECURSIVE DecText(_)
DecText(n) ==
    IF n < 10 THEN <<Digit[n + 1]>>
    ELSE DecText(n \div 10) \o <<Digit[(n % 10) + 1]>>
\* The SyntaxError message names the offending lexeme and where it stands.
UnexpectedToken(ts, i) ==
    <<"Unexpected token", ts[i].k, "in JSON at position">> \o DecText(ts[i].at - 1)

RECURSIVE ParseValue(_, _)
RECURSIVE ParseElems(_, _, _)
RECURSIVE ParseMembers(_, _, _, _)

ParseElems(ts, i, acc) ==
    LET r == ParseValue(ts, i) IN
    IF ~r.ok THEN r
    ELSE IF r.next > Len(ts) THEN PFail(UnexpectedEnd)
    ELSE IF ts[r.next].k = "," THEN ParseElems(ts, r.next + 1, Append(acc, r.val))
    ELSE IF ts[r.next].k = "]" THEN POk(JArr(Append(acc, r.val)), r.next + 1)
    ELSE PFail(UnexpectedToken(ts, r.next))

ParseMembers(ts, i, keys, kids) ==
    IF i > Len(ts) THEN PFail(UnexpectedEnd)
    ELSE IF ts[i].k \notin DOMAIN StrLit THEN PFail(UnexpectedToken(ts, i))
    ELSE IF i + 1 > Len(ts) THEN PFail(UnexpectedEnd)
    ELSE IF ts[i + 1].k # ":" THEN PFail(UnexpectedToken(ts, i + 1))
    ELSE LET r == ParseValue(ts, i + 2) IN
         IF ~r.ok THEN r
         ELSE IF r.next > Len(ts) THEN PFail(UnexpectedEnd)
         ELSE IF ts[r.next].k = ","
              THEN ParseMembers(ts, r.next + 1, Append(keys, StrLit[ts[i].k]),
                                Append(kids, r.val))
         ELSE IF ts[r.next].k = "}"
              THEN POk(JObj(Append(keys, StrLit[ts[i].k]), Append(kids, r.val)),
                       r.next + 1)
         ELSE PFail(UnexpectedToken(ts, r.next))

ParseValue(ts, i) ==
    IF i > Len(ts) THEN PFail(UnexpectedEnd)
    ELSE LET k == ts[i].k IN
         CASE k = "null" -> POk(JNull, i + 1)
           [] k = "true" -> POk(JBool(TRUE), i + 1)
           [] k = "false" -> POk(JBool(FALSE), i + 1)
           [] k \in DOMAIN NumLit -> POk(JNum(NumLit[k]), i + 1)
           [] k \in DOMAIN StrLit -> POk(JStr(StrLit[k]), i + 1)
           [] k = "[" ->
                IF i + 1 <= Len(ts) /\ ts[i + 1].k = "]"
                THEN POk(JArr(<<>>), i + 2)
                ELSE ParseElems(ts, i + 1, <<>>)
           [] k = "{" ->
                IF i + 1 <= Len(ts) /\ ts[i + 1].k = "}"
                THEN POk(JObj(<<>>, <<>>), i + 2)
                ELSE ParseMembers(ts, i + 1, <<>>, <<>>)
           [] OTHER -> PFail(UnexpectedToken(ts, i))

\* Whitespace between lexemes is insignificant to JSON.parse: the lexemes
\* that are not whitespace, each with its place in the text.
NoWS(text) ==
    SelectSeq([i \in 1..Len(text) |-> [k |-> text[i], at |-> i]],
              LAMBDA e : e.k \notin WS)

\* JSON.parse(text): the value, or the SyntaxError's message.
JsonParse(text) ==
    LET ts == NoWS(text)
        r == ParseValue(ts, 1)
    IN  IF r.ok /\ r.next <= Len(ts)
        THEN PFail(UnexpectedToken(ts, r.next))
        ELSE r

(***************************************************************************)
(* JSON.stringify and String(value)                                        *)
(***************************************************************************)
RECURSIVE Stringify(_)
RECURSIVE StringifyKids(_, _)
RECURSIVE StringifyMembers(_, _)

StringifyKids(kids, i) ==
    IF i > Len(kids) THEN <<>>
    ELSE (IF i > 1 THEN <<",">> ELSE <<>>) \o Stringify(kids[i])
         \o StringifyKids(kids, i + 1)

StringifyMembers(v, i) ==
    IF i > Len(v.kids) THEN <<>>
    ELSE (IF i > 1 THEN <<",">> ELSE <<>>) \o <<Quote(v.keys[i]), ":">>
         \o Stringify(v.kids[i]) \o StringifyMembers(v, i + 1)

\* JSON.stringify(v): no whitespace between lexemes.
Stringify(v) ==
    CASE v.t = "null" -> <<"null">>
      [] v.t = "bool" -> IF v.b THEN <<"true">> ELSE <<"false">>
      [] v.t = "num" -> <<NumText(v.n)>>
      [] v.t = "str" -> <<Quote(v.s)>>
      [] v.t = "arr" -> <<"[">> \o StringifyKids(v.kids, 1) \o <<"]">>
      [] OTHER -> <<"{">> \o StringifyMembers(v, 1) \o <<"}">>

RECURSIVE ToStr(_)
RECURSIVE JoinKids(_, _)

\* Array.prototype.join(","): null elements give the empty string.
JoinKids(kids, i) ==
    IF i > Len(kids) THEN <<>>
    ELSE (IF i > 1 THEN <<",">> ELSE <<>>)
         \o (IF kids[i].t = "null" THEN <<>> ELSE ToStr(kids[i]))
         \o JoinKids(kids, i + 1)

\* String(v), as a template literal `${v}` converts v.
ToStr(v) ==
    CASE v.t = "null" -> <<"null">>
      [] v.t = "bool" -> IF v.b THEN <<"true">> ELSE <<"false">>
      [] v.t = "num" -> <<NumText(v.n)>>
      [] v.t = "str" -> v.s
      [] v.t = "arr" -> JoinKids(v.kids, 1)
      [] OTHER -> <<"[object Object]">>

\* v?.key: the property's value, undefined (None) when v is null, is no
\* object, or has no such key.
GetProp(v, key) ==
    IF v.t = "obj" /\ \E i \in 1..Len(v.keys) : v.keys[i] = key
    THEN LET i == CHOOSE j \in 1..Len(v.keys) :
                     /\ v.keys[j] = key
                     /\ \A k \in (j + 1)..Len(v.keys) : v.keys[k] # key
         IN  Some(v.kids[i])
    ELSE None

(***************************************************************************)
(* getGeminiText (aiController.js 18-23)                                   *)
(*                                                                         *)
(* A provider response is None (null/undefined) or Some of                 *)
(*   [candidates |-> None | Some(<<candidate, ...>>)]                      *)
(*   candidate = [content |-> None | Some([parts |-> None | Some(<<part>>)])]*)
(*   part      = [text |-> None | Some(Text)]                              *)
(***************************************************************************)
\* response.candidates?.[0]?.content?.parts?.[0]?.text: every ?. yields
\* undefined when what is to its left is undefined.
ChainText(response) ==
    LET c == response[1].candidates IN
    IF c = None \/ c[1] = <<>> THEN None
    ELSE LET content == c[1][1].content IN
         IF content = None THEN None
         ELSE LET parts == content[1].parts IN
              IF parts = None \/ parts[1] = <<>> THEN None
              ELSE parts[1][1].text

Returned(v) == [fault |-> FALSE, val |-> v]
Thrown == [fault |-> TRUE, val |-> None]

\* A slip the optional chaining guards against: response.candidates[0] with
\* no ?. throws a TypeError when candidates is missing.
getGeminiTextUnguarded(response) ==
    IF response = None THEN Returned(None)
    ELSE IF response[1].candidates = None THEN Thrown
    ELSE LET text == ChainText(response) IN
         IF text # None /\ text[1] # <<>> THEN Returned(text) ELSE Returned(None)

getGeminiText(response) ==
    IF response # None /\ ChainText(response) # None
                       /\ ChainText(response)[1] # <<>>
    THEN Returned(ChainText(response))
    ELSE Returned(None)

(***************************************************************************)
(* tryParseJSON (aiController.js 26-40)                                    *)
(***************************************************************************)
RECURSIVE DropLeadingWS(_)
DropLeadingWS(text) ==
    IF text # <<>> /\ Head(text) \in WS THEN DropLeadingWS(Tail(text)) ELSE text

RECURSIVE DropTrailingWS(_)
DropTrailingWS(text) ==
    IF text # <<>> /\ text[Len(text)] \in WS
    THEN DropTrailingWS(SubSeq(text, 1, Len(text) - 1))
    ELSE text

\* String.prototype.trim
Trim(text) == DropTrailingWS(DropLeadingWS(text))

\* text.replace(/^```json\s*/, ""): the fence must carry the json tag.
StripLeadingFence(text) ==
    IF Len(text) >= 2 /\ text[1] = Fence /\ text[2] = LangJson
    THEN DropLeadingWS(SubSeq(text, 3, Len(text)))
    ELSE text

\* text.replace(/```$/, ""): a fence that ends the text.
StripTrailingFence(text) ==
    IF text # <<>> /\ text[Len(text)] = Fence
    THEN SubSeq(text, 1, Len(text) - 1)
    ELSE text

Cleaned(text) == Trim(StripTrailingFence(StripLeadingFence(text)))

\* A slip: reporting the first attempt's error instead of the second's.
tryParseJSONFirstError(text) ==
    LET first == JsonParse(text)
        second == JsonParse(Cleaned(text))
    IN  IF first.ok THEN [json |-> first.val, error |-> None]
        ELSE IF second.ok THEN [json |-> second.val, error |-> None]
        ELSE [json |-> JNull, error |-> Some(first.err)]

\* { json, error }: error is None for null.
tryParseJSON(text) ==
    LET first == JsonParse(text) IN
    IF first.ok THEN [json |-> first.val, error |-> None]
    ELSE LET second == JsonParse(Cleaned(text)) IN
         IF second.ok THEN [json |-> second.val, error |-> None]
         ELSE [json |-> JNull, error |-> Some(second.err)]

(***************************************************************************)
(* The handlers' responses and straight-line steps                         *)
(***************************************************************************)
\* res.status(status).json({ message, raw, error, questions, question });
\* a key the response does not carry is None.
Res(status, message, raw, error, questions, question) ==
    [status |-> status, message |-> message, raw |-> raw, error |-> error,
     questions |-> questions, question |-> question]

\* aiController.js 48 and 90
MissingFields == Res(400, "Missing required fields", None, None, None, None)
\* aiController.js 65 and 102
NoResponse == Res(500, "No response from Gemini", None, None, None, None)
\* aiController.js 115
NotFound == Res(404, "Question not found", None, None, None, None)

\* A slip: the catch block answering without the underlying message.
CatchResponseNoMessage(handler, msg) ==
    Res(500, "Internal error", None, None, None, None)

\* The catch blocks, aiController.js 76-81 and 128-134.
CatchResponse(handler, msg) ==
    Res(500,
        IF handler = "questions" THEN "Failed to generate questions"
                                 ELSE "Failed to generate explanation",
        None, Some(msg), None, None)

\* A slip: validating three of the four fields.
MissingQuestionFieldsThree(body) ==
    Falsy(body.role) \/ Falsy(body.experience) \/ Falsy(body.topicsToFocus)

\* !role || !experience || !topicsToFocus || !numberOfQuestions
MissingQuestionFields(body) ==
    \/ Falsy(body.role)
    \/ Falsy(body.experience)
    \/ Falsy(body.topicsToFocus)
    \/ Falsy(body.numberOfQuestions)

\* !questionId || !question
MissingExplanationFields(body) ==
    Falsy(body.questionId) \/ Falsy(body.question)

\* A slip: the parse-failure response without the raw text.
QuestionsResultNoRaw(text) ==
    LET p == tryParseJSON(text) IN
    IF Truthy(p.json)
    THEN Res(200, "", None, None, Some(p.json), None)
    ELSE Res(500, "Gemini returned invalid JSON", None, p.error, None, None)

\* aiController.js 67-75: if (json) 200 { questions: json } else 500.
QuestionsResult(text) ==
    LET p == tryParseJSON(text) IN
    IF Truthy(p.json)
    THEN Res(200, "", None, None, Some(p.json), None)
    ELSE Res(500, "Gemini returned invalid JSON", Some(text), p.error, None, None)

\* aiController.js 104-111, as the template literal of line 118 renders it.
DeriveExplanation(text) ==
    LET json == tryParseJSON(text).json
        e == GetProp(json, <<"explanation">>)
    IN  IF e # None /\ Truthy(e[1]) THEN ToStr(e[1])
        ELSE IF json.t \in {"null", "arr", "obj"}  \* typeof json === "object"
             THEN Stringify(json)
             ELSE text

Separator == <<"\n", "\n", "Explanation:", "\n">>

\* existingQuestion.answer || ""
AnswerOrEmpty(question) ==
    IF question.answer = None THEN <<>> ELSE question.answer[1]

\* A slip: the explanation replacing the answer instead of following it.
NewAnswerReplacing(question, explanation) == Separator \o explanation

\* aiController.js 118-120
NewAnswer(question, explanation) ==
    AnswerOrEmpty(question) \o Separator \o explanation

(***************************************************************************)
(* The Question collection                                                 *)
(***************************************************************************)
\* Question.findById(id): the record, or None.
findById(collection, id) ==
    IF id \in DOMAIN collection THEN Some(collection[id]) ELSE None

\* Question.findByIdAndUpdate(id, { answer }, { new: true }): the collection
\* after the update and the updated record (None when there is no such id).
findByIdAndUpdate(collection, id, answer) ==
    IF id \in DOMAIN collection
    THEN [db |-> [collection EXCEPT ![id].answer = Some(answer)],
          doc |-> Some([collection[id] EXCEPT !.answer = Some(answer)])]
    ELSE [db |-> collection, doc |-> None]

(***************************************************************************)
(* State                                                                   *)
(***************************************************************************)
VARIABLES
    db,     \* the Question collection: id -> [id, answer]
    req     \* the handler invocations: their locals, position and responses

vars == <<db, req>>

NoBody ==
    [role |-> None, experience |-> None, topicsToFocus |-> None,
     numberOfQuestions |-> None, questionId |-> None, question |-> None]

\* An invocation that has not begun.  A local not yet assigned is None and
\* Some(value) once assigned (response, text, parsed, existing); provider,
\* finds and updates count the calls of ai.models.generateContent,
\* Question.findById and Question.findByIdAndUpdate the invocation has made.
Idle ==
    [pc |-> "idle", handler |-> "", body |-> NoBody, response |-> None,
     text |-> None, parsed |-> None, explanation |-> <<>>,
     existing |-> None, newAnswer |-> <<>>,
     res |-> <<>>, provider |-> 0, finds |-> 0, updates |-> 0]

\* res.status(..).json(..) followed by the handler's return.
Respond(q, res) == [q EXCEPT !.pc = "done", !.res = Append(@, res)]

\* The id a questionId string names.
IdOf(body) == body.questionId[1].s

(***************************************************************************)
(* Inputs                                                                  *)
(***************************************************************************)
ValidQuestionBody ==
    [NoBody EXCEPT !.role = Some(JStr(<<"dev">>)),
                   !.experience = Some(JStr(<<"2">>)),
                   !.topicsToFocus = Some(JStr(<<"js">>)),
                   !.numberOfQuestions = Some(JNum(7))]

ExplanationBody(id, question) ==
    [NoBody EXCEPT !.questionId = id, !.question = question]

StoredId == <<"q1">>
UnknownId == <<"q9">>

\* What a JSON request body can hold in a field: nothing, null, strings,
\* numbers, booleans.
FieldValues ==
    {None, Some(JNull), Some(JStr(<<>>)), Some(JNum(0)), Some(JBool(FALSE)),
     Some(JStr(<<"x">>)), Some(JNum(7)), Some(JBool(TRUE))}

\* topicsToFocus sent as a list of topics, or as an object.
TopicLists ==
    {Some(JArr(<<>>)), Some(JArr(<<JStr(<<"js">>)>>)), Some(JObj(<<>>, <<>>))}

QuestionFields == {"role", "experience", "topicsToFocus", "numberOfQuestions"}

AllQuestionBodies ==
    {[ValidQuestionBody EXCEPT ![f] = v] : f \in QuestionFields, v \in FieldValues}
    \cup {[ValidQuestionBody EXCEPT !.topicsToFocus = v] : v \in TopicLists}

AllExplanationBodies ==
    {ExplanationBody(id, q) :
        id \in {None, Some(JNull), Some(JStr(<<>>)), Some(JStr(StoredId)),
                Some(JStr(UnknownId))},
        q \in {None, Some(JNull), Some(JStr(<<>>)), Some(JStr(<<"x">>))}}

FewQuestionBodies ==
    {ValidQuestionBody, [ValidQuestionBody EXCEPT !.role = None]}

FewExplanationBodies ==
    {ExplanationBody(Some(JStr(StoredId)), Some(JStr(<<"x">>))),
     ExplanationBody(Some(JStr(UnknownId)), Some(JStr(<<"x">>))),
     ExplanationBody(Some(JStr(StoredId)), None)}

\* Provider texts.
TextExplanationB == <<"{", "\"explanation\"", ":", "\"B\"", "}">>
TextNotJson == <<"not", " ", "json">>
TextFenced == <<Fence, LangJson, "\n">> \o TextExplanationB \o <<"\n", Fence>>
TextBareFence == <<Fence, "\n">> \o TextExplanationB \o <<"\n", Fence>>
TextFencedBroken == <<Fence, LangJson, "\n", "[", "1", ",", "\n", Fence>>

AllTexts ==
    {TextExplanationB, TextNotJson, TextFenced, TextBareFence, TextFencedBroken,
     TextFenced \o <<"\n">>,
     <<Fence, LangJson, " ", "0", " ", Fence>>,
     <<"{", "\"title\"", ":", "\"a\"", "}">>,
     <<"{", "\"explanation\"", ":", "\"\"", ",", "\"title\"", ":", "\"a\"", "}">>,
     <<"{", "\"explanation\"", ":", "7", "}">>,
     <<"{", "\"explanation\"", ":", "[", "1", ",", "null", "]", "}">>,
     <<"{", "\"explanation\"", ":", "{", "}", "}">>,
     <<"{", "}">>, <<"[", "]">>, <<" ", "[", "1", ",", " ", "\"a\"", "]", "\n">>,
     <<"0">>, <<"1">>, <<"false">>, <<"true">>, <<"null">>, <<"\"\"">>, <<"\"a\"">>,
     <<"[", "1", ",">>, <<"{", "\"a\"", "}">>, <<"1", "1">>, <<" ">>}

TextExplanationA == <<"{", "\"explanation\"", ":", "\"a\"", "}">>
FewTexts == {TextExplanationA, TextExplanationB}

\* A response carrying `text` at candidates[0].content.parts[0].text.
PartsResponse(parts) ==
    Some([candidates |-> Some(<<[content |-> Some([parts |-> parts])]>>)])
TextResponse(text) == PartsResponse(Some(<<[text |-> Some(text)]>>))

\* Responses of partial shape: null, no candidates, an empty candidates
\* array, no content, no parts, an empty parts array, no text, empty text.
PartialResponses ==
    {None,
     Some([candidates |-> None]),
     Some([candidates |-> Some(<<>>)]),
     Some([candidates |-> Some(<<[content |-> None]>>)]),
     PartsResponse(None),
     PartsResponse(Some(<<>>)),
     PartsResponse(Some(<<[text |-> None]>>)),
     TextResponse(<<>>)}

AllResponses == PartialResponses \cup {TextResponse(t) : t \in AllTexts}
FewResponses == {Some([candidates |-> Some(<<>>)])} \cup {TextResponse(t) : t \in FewTexts}

\* Messages of the errors the awaited calls reject with.
ProviderErrors == {<<"fetch failed">>}
DbErrors == {<<"connection lost">>}
TypeErrorMessage == <<"Cannot read properties of undefined">>

Question(id, answer) == [id |-> id, answer |-> answer]

(***************************************************************************)
(* Handler steps: one action per stretch of code between two awaits        *)
(***************************************************************************)
\* aiController.js 44-61: validation, then the provider call is issued.
StartQuestions(q, body) ==
    LET b == [q EXCEPT !.handler = "questions", !.body = body] IN
    IF MissingQuestionFields(body) THEN Respond(b, MissingFields)
    ELSE [b EXCEPT !.pc = "awaitProvider", !.provider = @ + 1]

\* aiController.js 86-98
StartExplanation(q, body) ==
    LET b == [q EXCEPT !.handler = "explanation", !.body = body] IN
    IF MissingExplanationFields(body) THEN Respond(b, MissingFields)
    ELSE [b EXCEPT !.pc = "awaitProvider", !.provider = @ + 1]

\* aiController.js 63-75 and 100-113: the provider call has resolved.
AfterProvider(q, response) ==
    LET g == getGeminiText(response)
        got == [q EXCEPT !.response = Some(response), !.text = g.val]
    IN  IF g.fault THEN Respond(got, CatchResponse(q.handler, TypeErrorMessage))
        ELSE IF g.val = None \/ g.val[1] = <<>> THEN Respond(got, NoResponse)
        ELSE LET parsed == [got EXCEPT !.parsed = Some(tryParseJSON(g.val[1]))] IN
             IF q.handler = "questions"
             THEN Respond(parsed, QuestionsResult(g.val[1]))
             ELSE [parsed EXCEPT !.explanation = DeriveExplanation(g.val[1]),
                                 !.pc = "awaitFind", !.finds = @ + 1]

\* A slip: no check of findById's result; reading .answer of null throws.
AfterFindUnchecked(q, existing) ==
    IF existing = None THEN Respond(q, CatchResponse(q.handler, TypeErrorMessage))
    ELSE [q EXCEPT !.existing = existing,
                   !.newAnswer = NewAnswer(existing[1], q.explanation),
                   !.pc = "awaitUpdate", !.updates = @ + 1]

\* aiController.js 113-125: findById has resolved.
AfterFind(q, existing) ==
    IF existing = None THEN Respond(q, NotFound)
    ELSE [q EXCEPT !.existing = existing,
                   !.newAnswer = NewAnswer(existing[1], q.explanation),
                   !.pc = "awaitUpdate", !.updates = @ + 1]

\* aiController.js 127
AfterUpdate(q, doc) == Respond(q, Res(200, "", None, None, None, doc))

InvokeQuestions(r, bodies) ==
    /\ req[r].pc = "idle"
    /\ \E body \in bodies : req' = [req EXCEPT ![r] = StartQuestions(@, body)]
    /\ UNCHANGED db

InvokeExplanation(r, bodies) ==
    /\ req[r].pc = "idle"
    /\ \E body \in bodies : req' = [req EXCEPT ![r] = StartExplanation(@, body)]
    /\ UNCHANGED db

ProviderReturn(r, responses) ==
    /\ req[r].pc = "awaitProvider"
    /\ \E response \in responses :
          req' = [req EXCEPT ![r] = AfterProvider(@, response)]
    /\ UNCHANGED db

ProviderFail(r) ==
    /\ req[r].pc = "awaitProvider"
    /\ \E msg \in ProviderErrors :
          req' = [req EXCEPT ![r] = Respond(@, CatchResponse(@.handler, msg))]
    /\ UNCHANGED db

FindReturn(r) ==
    /\ req[r].pc = "awaitFind"
    /\ req' = [req EXCEPT ![r] = AfterFind(@, findById(db, IdOf(@.body)))]
    /\ UNCHANGED db

FindFail(r) ==
    /\ req[r].pc = "awaitFind"
    /\ \E msg \in DbErrors :
          req' = [req EXCEPT ![r] = Respond(@, CatchResponse(@.handler, msg))]
    /\ UNCHANGED db

UpdateReturn(r) ==
    /\ req[r].pc = "awaitUpdate"
    /\ LET u == findByIdAndUpdate(db, IdOf(req[r].body), req[r].newAnswer) IN
          /\ db' = u.db
          /\ req' = [req EXCEPT ![r] = AfterUpdate(@, u.doc)]

UpdateFail(r) ==
    /\ req[r].pc = "awaitUpdate"
    /\ \E msg \in DbErrors :
          req' = [req EXCEPT ![r] = Respond(@, CatchResponse(@.handler, msg))]
    /\ UNCHANGED db

\* The awaited call of invocation r settles and the handler runs on.
Continue(r) ==
    \/ ProviderReturn(r, FewResponses)
    \/ ProviderFail(r)
    \/ FindReturn(r)
    \/ FindFail(r)
    \/ UpdateReturn(r)
    \/ UpdateFail(r)

(***************************************************************************)
(* Specifications                                                          *)
(***************************************************************************)
Reqs == 1..NumReqs

\* NumReqs invocations whose steps interleave at their awaits.
Init ==
    /\ db \in {[id \in {StoredId} |-> Question(id, a)] : a \in {None, Some(<<"A">>)}}
    /\ req = [r \in Reqs |-> Idle]

Next ==
    \E r \in Reqs :
        \/ InvokeQuestions(r, FewQuestionBodies)
        \/ InvokeExplanation(r, FewExplanationBodies)
        \/ Continue(r)

Spec == Init /\ [][Next]_vars

\* A settled promise's continuation runs: the event loop does not starve it.
FairSpec == Spec /\ \A r \in Reqs : WF_vars(Continue(r))

\* One invocation, over every request body, provider response and stored
\* answer considered.
InitOne ==
    /\ db \in {[id \in {StoredId} |-> Question(id, a)] :
                  a \in {None, Some(<<>>), Some(<<"A">>)}}
    /\ req = [r \in {1} |-> Idle]

NextOne ==
    \/ InvokeQuestions(1, AllQuestionBodies)
    \/ InvokeExplanation(1, AllExplanationBodies)
    \/ ProviderReturn(1, AllResponses)
    \/ ProviderFail(1)
    \/ FindReturn(1)
    \/ FindFail(1)
    \/ UpdateReturn(1)
    \/ UpdateFail(1)

OneSpec == InitOne /\ [][NextOne]_vars

(***************************************************************************)
(* Properties                                                              *)
(***************************************************************************)
All == DOMAIN req
Status(q) == q.res[1].status
BothParsesFail(text) == ~JsonParse(text).ok /\ ~JsonParse(Cleaned(text)).ok
\* The response of a rejected awaited call.
IsCaught(res, msgs) ==
    /\ res.status = 500
    /\ res.error \in {Some(m) : m \in msgs}

\* C1: explanations are purely additive under any interleaving: every step
\* leaves each stored answer with the answer stored before it as a prefix.
C1_AnswersOnlyGrow ==
    [][\A id \in DOMAIN db :
          IsPrefix(AnswerOrEmpty(db[id]), AnswerOrEmpty(db'[id]))]_vars

\* "Absent or empty", read for a JSON body: undefined, null, the empty
\* string, the empty array, the empty object.
AbsentOrEmpty(opt) ==
    \/ opt = None
    \/ opt[1].t = "null"
    \/ opt[1].t = "str" /\ opt[1].s = <<>>
    \/ opt[1].t = "arr" /\ opt[1].kids = <<>>
    \/ opt[1].t = "obj" /\ opt[1].keys = <<>>

AbsentNullOrEmptyString(opt) ==
    \/ opt = None
    \/ opt[1].t = "null"
    \/ opt[1].t = "str" /\ opt[1].s = <<>>

RequiredFields(q) ==
    IF q.handler = "questions" THEN QuestionFields ELSE {"questionId", "question"}

Rejected(q) ==
    /\ q.pc = "done"
    /\ q.res = <<MissingFields>>
    /\ q.provider = 0 /\ q.finds = 0 /\ q.updates = 0

\* C2 as stated: an invocation with a required field absent or empty is
\* answered 400 "Missing required fields" and calls neither the provider nor
\* the collection.
C2_EmptyFieldRejected ==
    \A r \in All :
        (req[r].handler # "" /\ \E f \in RequiredFields(req[r]) :
                                    AbsentOrEmpty(req[r].body[f]))
        => Rejected(req[r])

\* C2 amended: an invocation with a required field absent, null or the empty
\* string is answered 400 "Missing required fields" and calls neither the
\* provider nor the collection.
C2_MissingFieldRejected ==
    \A r \in All :
        (req[r].handler # "" /\ \E f \in RequiredFields(req[r]) :
                                    AbsentNullOrEmptyString(req[r].body[f]))
        => Rejected(req[r])

C2_Witness ==
    \E r \in All :
        /\ req[r].handler = "questions"
        /\ req[r].body.numberOfQuestions = None
        /\ req[r].body.role # None
        /\ req[r].pc = "done"
        /\ Status(req[r]) = 400

\* C3: generate-explanation with both fields, extractable provider text and
\* a questionId no record has never calls findByIdAndUpdate, and once
\* findById has resolved it answers 404 "Question not found".
C3_UnknownQuestionNotFound ==
    \A r \in All :
        (/\ req[r].handler = "explanation"
         /\ req[r].text # None
         /\ IdOf(req[r].body) \notin DOMAIN db)
        => /\ req[r].updates = 0
           /\ req[r].existing = None
           /\ req[r].pc \in {"awaitFind", "done"}
           /\ req[r].pc = "done" =>
                \/ req[r].res = <<NotFound>>
                \/ Len(req[r].res) = 1 /\ IsCaught(req[r].res[1], DbErrors)

C3_Witness ==
    \E r \in All :
        /\ req[r].handler = "explanation"
        /\ req[r].text # None
        /\ IdOf(req[r].body) = UnknownId
        /\ req[r].finds = 1
        /\ req[r].res = <<NotFound>>

\* The parse-failure response: 500 with the raw text and the diagnostic of
\* the second attempt.
ParseErrorResponse(text) ==
    Res(500, "Gemini returned invalid JSON", Some(text),
        Some(JsonParse(Cleaned(text)).err), None, None)

\* C4 as stated: in either handler, provider text that parses neither as it
\* is nor fence-stripped is answered 500 with the raw text and the parse
\* diagnostic, never 200, and the invocation writes no question record.
C4_ParseErrorSurfaced ==
    \A r \in All :
        (req[r].text # None /\ BothParsesFail(req[r].text[1]))
        => /\ req[r].updates = 0
           /\ req[r].pc = "done" =>
                req[r].res = <<ParseErrorResponse(req[r].text[1])>>

\* C4 amended: in generate-questions, provider text that parses neither as
\* it is nor fence-stripped is answered 500 with the raw text and the parse
\* diagnostic, never 200, and the invocation touches no question record.
C4_QuestionsParseErrorSurfaced ==
    \A r \in All :
        (/\ req[r].handler = "questions"
         /\ req[r].text # None
         /\ BothParsesFail(req[r].text[1]))
        => /\ req[r].updates = 0 /\ req[r].finds = 0
           /\ req[r].pc = "done"
           /\ req[r].res = <<ParseErrorResponse(req[r].text[1])>>

C4_Witness ==
    \E r \in All :
        /\ req[r].handler = "questions"
        /\ req[r].text = Some(TextFencedBroken)
        /\ Status(req[r]) = 500
        /\ req[r].res[1].raw = Some(TextFencedBroken)

\* C5: the update of a successful generate-explanation leaves the stored
\* answer equal to the answer stored before it (empty when absent), then
\* "\n\nExplanation:\n", then the explanation; the 200 response carries the
\* updated record.
C5_ExplanationAppended ==
    [][\A r \in All :
          (/\ req[r].pc = "awaitUpdate"
           /\ req'[r].pc = "done"
           /\ Status(req'[r]) = 200)
          => LET id == IdOf(req[r].body) IN
             /\ db'[id].answer =
                  Some((IF db[id].answer = None THEN <<>> ELSE db[id].answer[1])
                       \o <<"\n", "\n", "Explanation:", "\n">>
                       \o req[r].explanation)
             /\ req'[r].res[1].question = Some(db'[id])]_vars

C5_Witness ==
    \E r \in All :
        /\ req[r].pc = "done"
        /\ Status(req[r]) = 200
        /\ req[r].handler = "explanation"
        /\ req[r].existing = Some(Question(StoredId, Some(<<"A">>)))
        /\ req[r].explanation = <<"B">>
        /\ db[StoredId].answer = Some(<<"A", "\n", "\n", "Explanation:", "\n", "B">>)

\* C6: generate-questions with extractable text answers 200 { questions: v }
\* exactly when the text parses to v, as it is or fence-stripped, whatever
\* JSON value v is, and 500 with the raw text and the parse error exactly
\* when both attempts fail.
C6_QuestionsIffParses ==
    \A r \in All :
        (req[r].handler = "questions" /\ req[r].text # None)
        => LET text == req[r].text[1]
               first == JsonParse(text)
               second == JsonParse(Cleaned(text))
           IN  /\ first.ok =>
                    req[r].res = <<Res(200, "", None, None, Some(first.val), None)>>
               /\ ~first.ok /\ second.ok =>
                    req[r].res = <<Res(200, "", None, None, Some(second.val), None)>>
               /\ ~first.ok /\ ~second.ok =>
                    req[r].res = <<ParseErrorResponse(text)>>

\* The explanations C7 allows for a provider text.  Where the claim leaves
\* room (a falsy .explanation, an array) either reading is allowed.
ClaimedExplanations(text) ==
    LET first == JsonParse(text)
        second == JsonParse(Cleaned(text))
        ok == first.ok \/ second.ok
        json == IF first.ok THEN first.val ELSE second.val
        e == GetProp(json, <<"explanation">>)
    IN  IF ~ok THEN {text}
        ELSE IF e # None
             THEN IF Truthy(e[1]) THEN {ToStr(e[1])} ELSE {ToStr(e[1]), Stringify(json)}
        ELSE IF json.t = "obj" THEN {Stringify(json)}
        ELSE IF json.t = "arr" THEN {Stringify(json), text}
        ELSE {text}

\* C7: the explanation is the parsed JSON's .explanation if present, else
\* the stringified JSON if it is an object, else the raw text; for text that
\* does not parse it is the raw text.
C7_ExplanationFallback ==
    \A r \in All :
        (req[r].handler = "explanation" /\ req[r].text # None)
        => req[r].explanation \in ClaimedExplanations(req[r].text[1])

C8_Safe ==
    \A r \in All :
        /\ Len(req[r].res) <= 1
        /\ Len(req[r].res) = 1 <=> req[r].pc = "done"
        /\ req[r].provider <= 1

C8_FailureStep ==
    \A r \in All :
        /\ ProviderFail(r) =>
              req'[r].res = <<req'[r].res[1]>> /\ IsCaught(req'[r].res[1], ProviderErrors)
        /\ (FindFail(r) \/ UpdateFail(r)) =>
              req'[r].res = <<req'[r].res[1]>> /\ IsCaught(req'[r].res[1], DbErrors)

\* C8: every invocation whose awaited calls settle sends exactly one
\* response; a rejected provider or collection call is answered 500 with the
\* underlying message; the provider is called at most once per invocation.
C8_ExactlyOneResponse ==
    /\ []C8_Safe
    /\ [][C8_FailureStep]_vars
    /\ \A r \in Reqs : (req[r].pc # "idle") ~> (Len(req[r].res) = 1)

C8_Witness ==
    \E r \in All :
        /\ req[r].pc = "done"
        /\ req[r].provider = 1
        /\ req[r].res = <<CatchResponse(req[r].handler, <<"fetch failed">>)>>

\* The text at candidates[0].content.parts[0].text, None when a step of the
\* path is missing.
TextAtPath(response) ==
    IF response = None THEN None ELSE ChainText(response)

NoFault(q) == q.pc = "done" => q.res[1].error # Some(TypeErrorMessage)

\* C9 as stated: getGeminiText never faults, returns null when a step of
\* the path is missing, and returns the text whenever one is there.
C9_TextExtracted ==
    \A r \in All :
        req[r].response # None
        => /\ NoFault(req[r])
           /\ req[r].text = TextAtPath(req[r].response[1])

\* C9 amended: getGeminiText never faults, returns null when a step of the
\* path is missing or the text is the empty string, and returns the text
\* whenever a non-empty one is there.
C9_NonEmptyTextExtracted ==
    \A r \in All :
        req[r].response # None
        => LET at == TextAtPath(req[r].response[1]) IN
           /\ NoFault(req[r])
           /\ (at = None \/ at = Some(<<>>)) => req[r].text = None
           /\ (at # None /\ at # Some(<<>>)) => req[r].text = at

C9_Witness ==
    \E r \in All :
        /\ req[r].response = Some(Some([candidates |-> None]))
        /\ req[r].text = None
        /\ req[r].res = <<NoResponse>>

\* The fence-stripping C10 describes: the language tag is optional.
CleanedAnyFence(text) ==
    Trim(StripTrailingFence(
        IF Len(text) >= 2 /\ text[1] = Fence /\ text[2] = LangJson
        THEN DropLeadingWS(SubSeq(text, 3, Len(text)))
        ELSE IF text # <<>> /\ text[1] = Fence
             THEN DropLeadingWS(Tail(text))
             ELSE text))

\* C10 as stated: tryParseJSON returns the value when the text parses;
\* else strips a leading fence, with or without the json tag, and a trailing
\* fence, trims, and returns the value when that parses; else fails with
\* the second attempt's message.
C10_TwoAttemptsAnyFence ==
    \A r \in All :
        req[r].parsed # None
        => LET text == req[r].text[1]
               first == JsonParse(text)
               second == JsonParse(CleanedAnyFence(text))
           IN  req[r].parsed[1] =
                  IF first.ok THEN [json |-> first.val, error |-> None]
                  ELSE IF second.ok THEN [json |-> second.val, error |-> None]
                  ELSE [json |-> JNull, error |-> Some(second.err)]

\* C10 amended: tryParseJSON returns the value when the text parses; else
\* strips a leading fence tagged json and a trailing fence, trims, and
\* returns the value when that parses; else fails with the second attempt's
\* message, which is never null.  A bare fence is not stripped.
C10_TwoAttemptsJsonFence ==
    \A r \in All :
        req[r].parsed # None
        => LET text == req[r].text[1]
               first == JsonParse(text)
               second == JsonParse(Cleaned(text))
               p == req[r].parsed[1]
           IN  /\ first.ok => p = [json |-> first.val, error |-> None]
               /\ ~first.ok /\ second.ok => p = [json |-> second.val, error |-> None]
               /\ ~first.ok /\ ~second.ok =>
                    p.json = JNull /\ p.error = Some(second.err) /\ p.error # None
               /\ text = TextFenced => p = [json |-> JsonParse(TextExplanationB).val,
                                            error |-> None]
               /\ text = TextBareFence => p.error # None

C10_Witness ==
    \E r \in All :
        /\ req[r].text = Some(TextFenced)
        /\ req[r].parsed # None
        /\ req[r].parsed[1].error = None
        /\ req[r].parsed[1].json.t = "obj"

====
